---- MODULE Spec2Model ----
(***************************************************************************)
(* Model of abadojack/bip39, src/main.go: the mnemonic generator.          *)
(*                                                                         *)
(* mnemonicGenerator(startIndices) returns a closure over a private slice  *)
(* `current` and over wordCount = len(BIP39Words).  Every call of the      *)
(* closure maps `current` through the vocabulary, advances `current` and   *)
(* reports whether the advanced slice is all zero.                         *)
(*                                                                         *)
(* A Go slice index i is the TLA+ sequence index i + 1.  A run-time panic  *)
(* (index out of range) ends the generator: status "panicked".  The other   *)
(* generator stays callable, as for a caller that recovers or that resumes *)
(* in a later run of the program.                                          *)
(*                                                                         *)
(* Go slices are references to arrays: `heap` holds the arrays of the      *)
(* caller's start slices and of the closures' `current` slices, and        *)
(* argArray / curArray say which array each slice denotes.                 *)
(***************************************************************************)
EXTENDS Integers, Sequences, FiniteSets

\* The tuple length hard-wired in mnemonicGenerator (make([]int, 12),
\* i := 11, j < 12).
K == 12

\* Largest vocabulary size explored; the smallest is K - 1 (one word short).
MaxN == 14

\* Most calls of one generator's closure that are explored.
MaxCalls == 8

\* Longest word-list file, in characters, that readBIP39FromFile is run on.
MaxFileLen == 5

\* The generators: 1 is created by the caller from a start slice, 2 is created
\* from a tuple saved from generator 1 (main.go:178-191) or from the start slice
\* of generator 1 again.
Gens == {1, 2}

\* The arrays behind the slices: ArgArray(g) is the array of the start slice
\* the caller builds for generator g, OwnArray(g) the array that
\* mnemonicGenerator allocates for generator g (main.go:55, main.go:61).
ArgArray(g) == <<"arg", g>>
OwnArray(g) == <<"cur", g>>
NoArray == <<"nil", 0>>
Arrays == {ArgArray(g) : g \in Gens} \cup {OwnArray(g) : g \in Gens}

VARIABLES
    BIP39Words,     \* the global vocabulary (main.go:16)
    startIndices,   \* per generator: the caller's argument slice
    heap,           \* per array: its elements (<<>> while not allocated)
    argArray,       \* per generator: the array of the caller's argument slice
    curArray,       \* per generator: the array of the closure's captured slice
    wordCount,      \* per generator: the closure's captured len(BIP39Words)
    status,         \* per generator: "none" | "ready" | "panicked"
    results,        \* per generator: the (phrase, hasMore) pairs returned so far,
                    \*   each phrase as the caller's slice shows it now
    phraseBuf,      \* per generator: the array of each returned phrase
    yielded,        \* per generator: the slices materialized by the calls so far
    resumedAt,      \* the call of generator 1 whose tuple generator 2 resumes (0: none)
    file,           \* readBIP39FromFile: the characters of the file at filePath
    unread,         \* readBIP39FromFile: the characters the scanner has not consumed
    words,          \* readBIP39FromFile: its local slice words
    readPc,         \* readBIP39FromFile: "open" | "scan" | "done" | "failed"
    readResult      \* readBIP39FromFile: the returned (words, err)

genVars == <<startIndices, heap, argArray, curArray, wordCount, status,
             results, phraseBuf, yielded, resumedAt>>

readVars == <<file, unread, words, readPc, readResult>>

vars == <<BIP39Words, genVars, readVars>>

\* The closure's captured slice `current` of each generator.
current == [g \in Gens |-> heap[curArray[g]]]

----------------------------------------------------------------------------
\* Values

\* The i-th word of the word list (index i, 0-based).
Word(i) == <<"w", i>>

\* A vocabulary of n words, as readBIP39FromFile returns it for a file of n
\* distinct words.
Vocabulary(n) == [i \in 1..n |-> Word(i - 1)]

\* A Go slice argument: nil, or a slice with elements.
NilSlice == [isNil |-> TRUE, elems |-> <<>>]
Slice(s) == [isNil |-> FALSE, elems |-> s]

Min(S) == CHOOSE x \in S : \A y \in S : x <= y

RECURSIVE SortedSeq(_)
SortedSeq(S) == IF S = {} THEN <<>>
                ELSE <<Min(S)>> \o SortedSeq(S \ {Min(S)})

StrictlyIncreasing(t) == \A i \in 1..(Len(t) - 1) : t[i] < t[i + 1]

InRange(t, n) == \A i \in 1..Len(t) : 0 <= t[i] /\ t[i] <= n - 1

\* All strictly increasing K-tuples with values in lo..hi.
IncreasingTuples(lo, hi) ==
    {SortedSeq(S) : S \in {T \in SUBSET (lo..hi) : Cardinality(T) = K}}

\* The canonical first tuple (0, 1, ..., K-1) and the last combination
\* (n-K, ..., n-1).
Canonical == [i \in 1..K |-> i - 1]
LastCombination(n) == [i \in 1..K |-> n - K + i - 1]

----------------------------------------------------------------------------
\* Start slices a caller may pass to mnemonicGenerator for a vocabulary of n
\* words: nil, every strictly increasing K-tuple over -1..n (the values -1 and
\* n are out of range), tuples of two constant runs over the boundary values
\* (repeated and decreasing pairs, the all-(n-1) tuple), and slices of a
\* length other than K.
BoundaryValues(n) == {-1, 0, n - 2, n - 1, n}

TwoRunTuples(n) ==
    {[i \in 1..K |-> IF i <= m THEN a ELSE b] :
        m \in 0..(K - 1), a \in BoundaryValues(n), b \in BoundaryValues(n)}

WrongLengthTuples == {[i \in 1..len |-> i - 1] : len \in {0, K - 1, K + 1}}

StartSlices(n) ==
    {NilSlice} \cup
    {Slice(t) : t \in IncreasingTuples(-1, n) \cup TwoRunTuples(n)
                      \cup WrongLengthTuples}

----------------------------------------------------------------------------
\* main.go:43-49.  The phrase of a slice; defined only when no index is out of
\* range (IndexPanics below).
indicesToMnemonic(indices) ==
    [i \in 1..Len(indices) |-> BIP39Words[indices[i] + 1]]

\* BIP39Words[idx] panics for an idx outside 0..len(BIP39Words)-1.
IndexPanics(indices) ==
    \E i \in 1..Len(indices) :
        indices[i] < 0 \/ indices[i] >= Len(BIP39Words)

\* main.go:93-100.
isZeroSlice(slice) == \A i \in 1..Len(slice) : slice[i] = 0

\* FillAfter without the + 1: the slots after i repeat current[i].
RECURSIVE FillAfterNoIncrement(_, _)
FillAfterNoIncrement(cur, j) ==
    IF j > K THEN cur
    ELSE FillAfterNoIncrement([cur EXCEPT ![j] = cur[j - 1]], j + 1)

\* main.go:74-76: for j := i + 1; j < 12; j++ { current[j] = current[j-1] + 1 }
\* (j is the TLA+ index of the slot written next).
RECURSIVE FillAfter(_, _)
FillAfter(cur, j) ==
    IF j > K THEN cur
    ELSE FillAfter([cur EXCEPT ![j] = cur[j - 1] + 1], j + 1)

\* Increment with the test current[i] < wordCount (one too far).
RECURSIVE IncrementBelowCount(_, _, _)
IncrementBelowCount(cur, wc, i) ==
    IF i < 1 THEN cur
    ELSE IF cur[i] < wc
         THEN FillAfter([cur EXCEPT ![i] = cur[i] + 1], i + 1)
         ELSE IncrementBelowCount([cur EXCEPT ![i] = 0], wc, i - 1)

\* Increment without the refill of the slots after i.
RECURSIVE IncrementNoRefill(_, _, _)
IncrementNoRefill(cur, wc, i) ==
    IF i < 1 THEN cur
    ELSE IF cur[i] < wc - 1
         THEN [cur EXCEPT ![i] = cur[i] + 1]
         ELSE IncrementNoRefill([cur EXCEPT ![i] = 0], wc, i - 1)

\* Increment without the reset of a slot that cannot be incremented.
RECURSIVE IncrementNoReset(_, _, _)
IncrementNoReset(cur, wc, i) ==
    IF i < 1 THEN cur
    ELSE IF cur[i] < wc - 1
         THEN FillAfter([cur EXCEPT ![i] = cur[i] + 1], i + 1)
         ELSE IncrementNoReset(cur, wc, i - 1)

\* Increment with the maximum of slot i lowered by the slots after it
\* (wordCount - 1 - (11 - i) for the Go index i).
RECURSIVE IncrementPerSlotMax(_, _, _)
IncrementPerSlotMax(cur, wc, i) ==
    IF i < 1 THEN cur
    ELSE IF cur[i] < wc - 1 - (K - i)
         THEN FillAfter([cur EXCEPT ![i] = cur[i] + 1], i + 1)
         ELSE IncrementPerSlotMax([cur EXCEPT ![i] = 0], wc, i - 1)

\* main.go:69-81: the loop for i := 11; i >= 0; i-- (i is the TLA+ index).
RECURSIVE Increment(_, _, _)
Increment(cur, wc, i) ==
    IF i < 1 THEN cur
    ELSE IF cur[i] < wc - 1
         THEN FillAfter([cur EXCEPT ![i] = cur[i] + 1], i + 1)
         ELSE Increment([cur EXCEPT ![i] = 0], wc, i - 1)

\* InitialIndices without the nil test: the argument is always replaced.
InitialIndicesIgnoreStart(start) == [i \in 1..K |-> i - 1]

\* main.go:54-61: the slice the closure starts from, a copy of the argument, or
\* of (0, 1, ..., 11) when the argument is nil.
InitialIndices(start) ==
    IF start.isNil THEN Canonical ELSE start.elems

\* CopyOfStart without the copy: current := startIndices shares the caller's
\* array.
CopyOfStartShared(g, arg) == IF arg = NoArray THEN OwnArray(g) ELSE arg

\* main.go:55, main.go:61: the array of `current`.  make([]int, 12) and
\* append([]int(nil), startIndices...) both allocate a new array, whatever the
\* array arg of the caller's slice.
CopyOfStart(g, arg) == OwnArray(g)

\* One phrase array per generator, written again by every call.
PhraseArrayReused(g, n) == <<g, 0>>

\* main.go:44: make([]string, len(indices)) allocates the phrase array of call
\* n of generator g.
PhraseArray(g, n) == <<g, n>>

\* GenCall with the phrase taken after the advance instead of before it.
GenCallAdvanceFirst(cur, wc) ==
    IF IndexPanics(cur) \/ Len(cur) < K
    THEN [panics |-> TRUE, phrase |-> <<>>, hasMore |-> FALSE, current |-> cur]
    ELSE LET advanced == Increment(cur, wc, K)
         IN  [panics  |-> FALSE,
              phrase  |-> [i \in 1..Len(advanced) |-> Word(advanced[i])],
              hasMore |-> ~isZeroSlice(advanced),
              current |-> advanced]

\* main.go:64-89: one call of the closure on the captured slice cur and the
\* captured wordCount wc.  panics: the call panics (in indicesToMnemonic, or at
\* current[11] when the slice is shorter than 12) before it changes anything.
GenCall(cur, wc) ==
    IF IndexPanics(cur) \/ Len(cur) < K
    THEN [panics |-> TRUE, phrase |-> <<>>, hasMore |-> FALSE, current |-> cur]
    ELSE LET advanced == Increment(cur, wc, K)
         IN  [panics  |-> FALSE,
              phrase  |-> indicesToMnemonic(cur),
              hasMore |-> ~isZeroSlice(advanced),
              current |-> advanced]

----------------------------------------------------------------------------
\* readBIP39FromFile (main.go:19-40).  A file is a sequence of characters.

LF == "LF"
CR == "CR"
SP == "SP"
TAB == "TAB"

\* The characters of the files explored: line feed, carriage return, two kinds
\* of blank, two letters.
Chars == {LF, CR, SP, TAB, "a", "b"}

RECURSIVE SeqsUpTo(_, _)
SeqsUpTo(S, n) ==
    IF n = 0 THEN {<<>>}
    ELSE LET shorter == SeqsUpTo(S, n - 1)
         IN  shorter \cup {Append(q, c) : q \in shorter, c \in S}

Files == SeqsUpTo(Chars, MaxFileLen)

\* The file that holds the words ws, one per line.
RECURSIVE FileOfWords(_)
FileOfWords(ws) ==
    IF ws = <<>> THEN <<>>
    ELSE Head(ws) \o <<LF>> \o FileOfWords(Tail(ws))

\* unicode.IsSpace for the characters above.
IsSpace(c) == c \in {LF, CR, SP, TAB}

\* strings.TrimLeft / strings.TrimRight over white space.
RECURSIVE TrimLeft(_)
TrimLeft(str) ==
    IF str # <<>> /\ IsSpace(Head(str)) THEN TrimLeft(Tail(str)) ELSE str

RECURSIVE TrimRight(_)
TrimRight(str) ==
    IF str # <<>> /\ IsSpace(str[Len(str)])
    THEN TrimRight(SubSeq(str, 1, Len(str) - 1))
    ELSE str

\* TrimSpace that trims the front only.
TrimSpaceLeftOnly(str) == TrimLeft(str)

\* main.go:29: strings.TrimSpace.
TrimSpace(str) == TrimRight(TrimLeft(str))

\* bufio.dropCR: a token loses one trailing carriage return.
dropCR(data) ==
    IF data # <<>> /\ data[Len(data)] = CR
    THEN SubSeq(data, 1, Len(data) - 1)
    ELSE data

\* The index of the first line feed of data, 0 if it has none.
RECURSIVE IndexLF(_, _)
IndexLF(data, i) ==
    IF i > Len(data) THEN 0
    ELSE IF data[i] = LF THEN i
    ELSE IndexLF(data, i + 1)

\* ScanLines that drops a last line without a line feed.
ScanLinesDropLast(data) ==
    LET i == IndexLF(data, 1)
    IN  IF i > 0
        THEN [token |-> dropCR(SubSeq(data, 1, i - 1)),
              rest  |-> SubSeq(data, i + 1, Len(data))]
        ELSE [token |-> <<>>, rest |-> <<>>]

\* main.go:27-28: bufio.Scanner with its default split function ScanLines on
\* the non-empty unread data: the token up to the first line feed, or all the
\* data when no line feed is left, and the data after it.
ScanLines(data) ==
    LET i == IndexLF(data, 1)
    IN  IF i > 0
        THEN [token |-> dropCR(SubSeq(data, 1, i - 1)),
              rest  |-> SubSeq(data, i + 1, Len(data))]
        ELSE [token |-> dropCR(data), rest |-> <<>>]

----------------------------------------------------------------------------
\* No generator exists.
NoGenerators ==
    /\ startIndices = [g \in Gens |-> NilSlice]
    /\ heap = [a \in Arrays |-> <<>>]
    /\ argArray = [g \in Gens |-> NoArray]
    /\ curArray = [g \in Gens |-> OwnArray(g)]
    /\ wordCount = [g \in Gens |-> 0]
    /\ status = [g \in Gens |-> "none"]
    /\ results = [g \in Gens |-> <<>>]
    /\ phraseBuf = [g \in Gens |-> <<>>]
    /\ yielded = [g \in Gens |-> <<>>]
    /\ resumedAt = 0

\* main.go:159-164: main has read the vocabulary from a file of one word per
\* line; no generator exists yet.
Init ==
    /\ BIP39Words \in {Vocabulary(n) : n \in (K - 1)..MaxN}
    /\ file = FileOfWords(BIP39Words)
    /\ unread = <<>>
    /\ words = BIP39Words
    /\ readPc = "done"
    /\ readResult = [words |-> BIP39Words, err |-> "nil"]
    /\ NoGenerators

\* main.go:52-63: mnemonicGenerator(start) creates generator g; arr is the
\* array of the caller's slice start (NoArray for nil), holding start.elems.
Construct(g, arr, start) ==
    /\ status[g] = "none"
    /\ startIndices' = [startIndices EXCEPT ![g] = start]
    /\ argArray' = [argArray EXCEPT ![g] = arr]
    /\ curArray' = [curArray EXCEPT ![g] = CopyOfStart(g, arr)]
    /\ heap' = LET passed == IF arr = NoArray THEN heap
                            ELSE [heap EXCEPT ![arr] = start.elems]
               IN  [passed EXCEPT ![CopyOfStart(g, arr)] = InitialIndices(start)]
    /\ wordCount' = [wordCount EXCEPT ![g] = Len(BIP39Words)]
    /\ status' = [status EXCEPT ![g] = "ready"]
    /\ UNCHANGED <<BIP39Words, results, phraseBuf, yielded, readVars>>

\* gen := mnemonicGenerator(start) for a start slice of the caller's choice.
New ==
    /\ status[1] = "none"
    /\ \E start \in StartSlices(Len(BIP39Words)) :
          Construct(1, IF start.isNil THEN NoArray ELSE ArgArray(1), start)
    /\ UNCHANGED resumedAt

\* main.go:178-181: the caller resumes from the tuple that call r of generator
\* 1 materialized.
Resume ==
    /\ status[2] = "none"
    /\ \E r \in 1..Len(yielded[1]) :
        /\ Construct(2, ArgArray(2), Slice(yielded[1][r]))
        /\ resumedAt' = r

\* A second generator over the same start slice: the caller passes the slice
\* it passed for generator 1 (nil, or the same array as it is now) again.
Share ==
    /\ status[1] # "none"
    /\ status[2] = "none"
    /\ Construct(2, argArray[1],
                 IF argArray[1] = NoArray THEN NilSlice
                 ELSE Slice(heap[argArray[1]]))
    /\ UNCHANGED resumedAt

\* main.go:64-89: one call gen() of generator g.
Call(g) ==
    /\ status[g] = "ready"
    /\ Len(results[g]) < MaxCalls
    /\ LET c == GenCall(current[g], wordCount[g])
       IN  IF c.panics
           THEN /\ status' = [status EXCEPT ![g] = "panicked"]
                /\ UNCHANGED <<heap, results, phraseBuf, yielded>>
           ELSE LET buf == PhraseArray(g, Len(results[g]) + 1)
                    \* the phrases returned earlier, as their arrays show them
                    \* once this call has written its phrase into buf
                    seen == [j \in 1..Len(results[g]) |->
                               IF phraseBuf[g][j] = buf
                               THEN [results[g][j] EXCEPT !.phrase = c.phrase]
                               ELSE results[g][j]]
                IN  /\ heap' = [heap EXCEPT ![curArray[g]] = c.current]
                    /\ results' = [results EXCEPT ![g] =
                                      Append(seen, [phrase |-> c.phrase,
                                                    hasMore |-> c.hasMore])]
                    /\ phraseBuf' = [phraseBuf EXCEPT ![g] = Append(@, buf)]
                    /\ yielded' = [yielded EXCEPT ![g] = Append(@, current[g])]
                    /\ UNCHANGED status
    /\ UNCHANGED <<BIP39Words, startIndices, argArray, curArray, wordCount,
                   resumedAt, readVars>>

Next ==
    \/ New
    \/ Resume
    \/ Share
    \/ \E g \in Gens : Call(g)

Spec == Init /\ [][Next]_vars

----------------------------------------------------------------------------
\* main.go:160-161: main is about to call readBIP39FromFile on some file.
ReadInit ==
    /\ BIP39Words = <<>>
    /\ file \in Files
    /\ unread = <<>>
    /\ words = <<>>
    /\ readPc = "open"
    /\ readResult = [words |-> <<>>, err |-> "nil"]
    /\ NoGenerators

\* main.go:20-27: os.Open succeeds and the scanner is set on the file.
Open ==
    /\ readPc = "open"
    /\ unread' = file
    /\ readPc' = "scan"
    /\ UNCHANGED <<BIP39Words, genVars, file, words, readResult>>

\* main.go:20-23: os.Open fails.
OpenFails ==
    /\ readPc = "open"
    /\ readPc' = "failed"
    /\ readResult' = [words |-> <<>>, err |-> "failed to open file"]
    /\ UNCHANGED <<BIP39Words, genVars, file, unread, words>>

\* main.go:28-33: scanner.Scan() returns true; the trimmed line is appended to
\* words unless it is empty.
ScanLine ==
    /\ readPc = "scan"
    /\ unread # <<>>
    /\ LET scanned == ScanLines(unread)
           word == TrimSpace(scanned.token)
       IN  /\ unread' = scanned.rest
           /\ words' = IF word # <<>> THEN Append(words, word) ELSE words
    /\ UNCHANGED <<BIP39Words, genVars, file, readPc, readResult>>

\* main.go:35-37: the scanner stops on a read error (or on a line longer than
\* its buffer); readBIP39FromFile returns nil and the error.
ScanFails ==
    /\ readPc = "scan"
    /\ readPc' = "failed"
    /\ readResult' = [words |-> <<>>, err |-> "error reading file"]
    /\ UNCHANGED <<BIP39Words, genVars, file, unread, words>>

\* main.go:28, main.go:39, main.go:161: scanner.Scan() returns false at the end
\* of the file; readBIP39FromFile returns words and main stores them.
Return ==
    /\ readPc = "scan"
    /\ unread = <<>>
    /\ readPc' = "done"
    /\ readResult' = [words |-> words, err |-> "nil"]
    /\ BIP39Words' = words
    /\ UNCHANGED <<genVars, file, unread, words>>

ReadNext ==
    \/ Open
    \/ OpenFails
    \/ ScanLine
    \/ ScanFails
    \/ Return

ReadSpec == ReadInit /\ [][ReadNext]_vars

\* The caller calls each generator's closure again and again (main.go:169).
FairSpec == Spec /\ \A g \in Gens : WF_vars(Call(g))

----------------------------------------------------------------------------
\* Vocabulary of the properties

N == Len(BIP39Words)

Last(s) == s[Len(s)]

Constructed(g) == status[g] # "none"

\* Generator g was created at the canonical start: mnemonicGenerator(nil).
CanonicalStart(g) == Constructed(g) /\ startIndices[g].isNil

\* Generator g was created from a strictly increasing K-tuple, or from nil.
IncreasingStart(g) ==
    /\ Constructed(g)
    /\ \/ startIndices[g].isNil
       \/ /\ Len(startIndices[g].elems) = K
          /\ StrictlyIncreasing(startIndices[g].elems)

\* ... and every value of that tuple is in 0..N-1 (N >= K for nil).
ValidStart(g) ==
    /\ IncreasingStart(g)
    /\ N >= K
    /\ InRange(startIndices[g].elems, N)

\* The phrase of tuple t, word by word.
PhraseOf(t) == [i \in 1..Len(t) |-> Word(t[i])]

\* C(n, k)
RECURSIVE Binomial(_, _)
Binomial(n, k) == IF k = 0 THEN 1 ELSE (Binomial(n - 1, k - 1) * n) \div k

\* a < b in lexicographic order.
LexLess(a, b) ==
    \/ \E i \in 1..Len(a) :
          /\ i <= Len(b)
          /\ a[i] < b[i]
          /\ \A h \in 1..(i - 1) : a[h] = b[h]
    \/ /\ Len(a) < Len(b)
       /\ \A h \in 1..Len(a) : a[h] = b[h]

Exhausted(g) == results[g] # <<>> /\ ~Last(results[g]).hasMore

----------------------------------------------------------------------------
\* C1: a generator created at the canonical start over N >= K words never
\* fails, reports hasMore=false on exactly its C(N,K)-th call, and has then
\* yielded every strictly increasing K-tuple over 0..N-1 once each.
C1_AllCombinations ==
    \A g \in Gens :
        (CanonicalStart(g) /\ N >= K) =>
            /\ status[g] # "panicked"
            /\ \A j \in 1..Len(results[g]) :
                  results[g][j].hasMore = (j < Binomial(N, K))
            /\ \A i, j \in 1..Len(yielded[g]) :
                  i # j => yielded[g][i] # yielded[g][j]
            /\ Exhausted(g) =>
                  {yielded[g][j] : j \in 1..Len(yielded[g])}
                      = IncreasingTuples(0, N - 1)

\* C2: from a valid start (canonical, or strictly increasing and in range)
\* every index of the stored tuple stays in 0..N-1 and no call panics.
C2_IndicesInRange ==
    \A g \in Gens :
        ValidStart(g) => InRange(current[g], N) /\ status[g] # "panicked"

\* C3: every tuple materialized by a generator created at the canonical start or
\* from a strictly increasing K-tuple is strictly increasing.
C3_MaterializedIncreasing ==
    \A g \in Gens :
        IncreasingStart(g) =>
            \A j \in 1..Len(yielded[g]) : StrictlyIncreasing(yielded[g][j])

\* C3's case: a generator created from a strictly increasing tuple has
\* materialized three tuples, the third after a carry into slot K-1.
C3_Witness ==
    \E g \in Gens :
        /\ IncreasingStart(g) /\ ~startIndices[g].isNil
        /\ Len(yielded[g]) >= 3
        /\ yielded[g][3][K - 1] > yielded[g][1][K - 1]

\* C4: a generator created at the canonical start (generator 1; generator 2 is
\* always created from a slice) and called again and again eventually returns
\* hasMore=false.
C4_EventuallyExhausted ==
    (CanonicalStart(1) /\ N >= K) ~> Exhausted(1)

\* C5: a generator created from the last combination (N-K, ..., N-1) returns
\* hasMore=false on its first call.
C5_LastCombinationExhausts ==
    \A g \in Gens :
        ( /\ Constructed(g) /\ N >= K
          /\ startIndices[g] = Slice(LastCombination(N))
          /\ results[g] # <<>> )
        => ~results[g][1].hasMore

\* C6: with N = K the first call of a generator created at the canonical start
\* returns the phrase of (0, ..., K-1) and hasMore=false, and that is its only
\* tuple.
C6_SingleTuple ==
    \A g \in Gens :
        (CanonicalStart(g) /\ N = K) =>
            /\ status[g] # "panicked"
            /\ Len(results[g]) <= 1
            /\ results[g] # <<>> =>
                  results[g][1] = [phrase |-> PhraseOf(Canonical),
                                   hasMore |-> FALSE]

\* C7: generator 2, created from the tuple that call r of generator 1
\* materialized, returns call for call what generator 1 returns from call r on,
\* and fails exactly where generator 1 fails.
C7_ResumptionEquivalence ==
    resumedAt > 0 =>
        /\ \A j \in 1..Len(results[2]) :
              resumedAt + j - 1 <= Len(results[1]) =>
                  results[2][j] = results[1][resumedAt + j - 1]
        /\ status[2] = "panicked" =>
              Len(results[1]) <= resumedAt - 1 + Len(results[2])
        /\ status[1] = "panicked" =>
              Len(results[2]) <= Len(results[1]) - resumedAt + 1

\* C7's case: generator 1 started at the canonical tuple, generator 2 resumed
\* from its second or a later tuple, and both went on for at least two calls.
C7_Witness ==
    /\ resumedAt >= 2
    /\ startIndices[1].isNil
    /\ Len(results[2]) >= 2
    /\ Len(results[1]) >= resumedAt + 1

\* C8: of the tuples materialized by two consecutive calls of one generator, the
\* second is lexicographically greater than the first.
C8_LexIncreasing ==
    \A g \in Gens :
        \A j \in 1..(Len(yielded[g]) - 1) :
            LexLess(yielded[g][j], yielded[g][j + 1])

\* C9: every call returns the phrase whose i-th word is the vocabulary word at
\* index tuple[i] of the tuple stored before the call; the first call returns
\* the phrase of the construction-time tuple (the start slice, or the canonical
\* tuple for nil).
C9_FirstPhrase ==
    \A g \in Gens :
        results[g] # <<>> =>
            LET t == IF startIndices[g].isNil THEN Canonical
                     ELSE startIndices[g].elems
            IN  /\ Len(results[g][1].phrase) = Len(t)
                /\ \A i \in 1..Len(t) :
                      results[g][1].phrase[i] = BIP39Words[t[i] + 1]

C9_CallPhrase ==
    \A g \in Gens :
        Len(results'[g]) = Len(results[g]) + 1 =>
            /\ Len(Last(results'[g]).phrase) = Len(current[g])
            /\ \A i \in 1..Len(current[g]) :
                  Last(results'[g]).phrase[i] = BIP39Words[current[g][i] + 1]

C9_YieldThenAdvance == [](C9_FirstPhrase) /\ [][C9_CallPhrase]_vars

\* C9's case: a generator created from a start slice has returned two phrases,
\* the second differing from the first.
C9_Witness ==
    \E g \in Gens :
        /\ ~startIndices[g].isNil
        /\ Len(results[g]) >= 2
        /\ results[g][2].phrase # results[g][1].phrase

\* The configurations construction has to reject: fewer than K words, or a start
\* slice of another length, with a value outside 0..N-1, or with a repeated or
\* decreasing adjacent pair.
InvalidConfiguration(start) ==
    \/ N < K
    \/ /\ ~start.isNil
       /\ \/ Len(start.elems) # K
          \/ ~InRange(start.elems, N)
          \/ ~StrictlyIncreasing(start.elems)

\* C10: for an invalid configuration no generator is created and no tuple is
\* produced.
C10_RejectsInvalid ==
    \A g \in Gens :
        InvalidConfiguration(startIndices[g]) =>
            status[g] = "none" /\ results[g] = <<>>

----------------------------------------------------------------------------
\* C11: once a call has returned hasMore=false, every later call of that
\* generator returns the same phrase with hasMore=false, and none panics.
C11_ExhaustionTerminal ==
    \A g \in Gens :
        \A j \in 1..Len(results[g]) :
            ~results[g][j].hasMore =>
                /\ status[g] # "panicked"
                /\ j < Len(results[g]) => results[g][j + 1] = results[g][j]

\* Generator 2 was created from the start slice of generator 1.
SharedStart == Constructed(2) /\ resumedAt = 0

\* C12: two generators over one vocabulary do not interfere.  A step in which
\* generator g does not act leaves its stored tuple alone, and two generators
\* created from the same start slice return the same results call for call under
\* every interleaving (so each returns what it returns when the other is not
\* called at all), and fail at the same call.
C12_SameResults ==
    SharedStart =>
        /\ \A j \in 1..Len(results[1]) :
              j <= Len(results[2]) => results[1][j] = results[2][j]
        /\ status[1] = "panicked" => Len(results[2]) <= Len(results[1])
        /\ status[2] = "panicked" => Len(results[1]) <= Len(results[2])

C12_OtherUntouched ==
    \A g \in Gens :
        (results'[g] = results[g] /\ status'[g] = status[g])
            => current'[g] = current[g]

C12_Independent == [](C12_SameResults) /\ [][C12_OtherUntouched]_vars

\* C12's case: both generators come from one start slice (one array), and each
\* has returned twice and moved off the start tuple.
C12_Witness ==
    /\ SharedStart
    /\ argArray[1] # NoArray /\ argArray[2] = argArray[1]
    /\ Len(results[1]) >= 2 /\ Len(results[2]) >= 2
    /\ results[1][2].phrase # results[1][1].phrase

\* The tuple stored after call j of generator g.
After(g, j) == IF j < Len(yielded[g]) THEN yielded[g][j + 1] ELSE current[g]

\* The least strictly increasing K-tuple over 0..n-1 that is greater than t.
LexSuccessor(t, n) ==
    LET greater == {u \in IncreasingTuples(0, n - 1) : LexLess(t, u)}
    IN  CHOOSE s \in greater : \A u \in greater : s = u \/ LexLess(s, u)

ValidTuple(t) == Len(t) = K /\ StrictlyIncreasing(t) /\ InRange(t, N)

\* A step in which generator g returns from a call.
Returns(g) == Len(results'[g]) = Len(results[g]) + 1

\* C14: a call on a strictly increasing in-range tuple T other than the last
\* combination stores the least strictly increasing K-tuple over 0..N-1 greater
\* than T.
C14_CallStoresSuccessor ==
    \A g \in Gens :
        ( /\ Returns(g)
          /\ ValidTuple(current[g])
          /\ current[g] # LastCombination(N) )
        => current'[g] = LexSuccessor(current[g], N)

C14_SingleStepSuccessor == [][C14_CallStoresSuccessor]_vars

Max(S) == CHOOSE x \in S : \A y \in S : y <= x

\* The advance from tuple old to tuple new increments slot i: slot i grows by
\* one and the slots before it keep their values.
IncrementsAt(old, new, i) ==
    /\ new[i] = old[i] + 1
    /\ \A h \in 1..(i - 1) : new[h] = old[h]

\* C15 as stated: the slot a call increments is the rightmost slot whose value
\* is below N - (k - 1 - i), that is N - (K - i) for the TLA+ index i.
C15_BelowSlotBound ==
    \A g \in Gens :
        Returns(g) =>
            LET below == {i \in 1..K : current[g][i] < N - (K - i)}
            IN  below # {} =>
                    IncrementsAt(current[g], current'[g], Max(below))

C15_BelowLastIndex ==
    \A g \in Gens :
        Returns(g) =>
            LET below == {i \in 1..K : current[g][i] < N - 1}
            IN  below # {} =>
                    IncrementsAt(current[g], current'[g], Max(below))

C16_AdvanceEffect ==
    \A g \in Gens :
        Returns(g) =>
            \/ \A i \in 1..K : current[g][i] >= N - 1 /\ current'[g][i] = 0
            \/ \E i \in 1..K :
                  /\ IncrementsAt(current[g], current'[g], i)
                  /\ \A j \in (i + 1)..K :
                        current'[g][j] = current'[g][j - 1] + 1

C16_IncrementEffect == [][C16_AdvanceEffect]_vars

\* C16's case: a call incremented slot K-2, two slots to the right of which
\* were refilled.
C16_Witness ==
    \E g \in Gens :
        \E j \in 1..Len(yielded[g]) :
            /\ IncrementsAt(yielded[g][j], After(g, j), K - 2)
            /\ After(g, j)[K] = yielded[g][j][K - 2] + 3

StartTuple(g) ==
    IF startIndices[g].isNil THEN Canonical ELSE startIndices[g].elems

\* C18: from a strictly increasing in-range start the slots 0..K-3 keep their
\* values over every sequence of calls: only the last two slots are modified.
C18_OnlyLastTwoSlots ==
    \A g \in Gens :
        ValidStart(g) =>
            /\ Len(current[g]) = K
            /\ \A i \in 1..(K - 2) : current[g][i] = StartTuple(g)[i]

\* C18's case: a generator from a valid start has been called three times and
\* both of its last two slots have changed.
C18_Witness ==
    \E g \in Gens :
        /\ ValidStart(g)
        /\ Len(results[g]) >= 3
        /\ current[g][K - 1] # StartTuple(g)[K - 1]
        /\ current[g][K] # StartTuple(g)[K]

\* C19: the caller's start slice keeps the elements it had when it was passed,
\* through construction and every call, and a phrase that was returned is not
\* changed by later calls.
C19_StartSliceKept ==
    \A g \in Gens :
        argArray[g] # NoArray => heap[argArray[g]] = startIndices[g].elems

C19_PhrasesKept ==
    \A g \in Gens :
        /\ Len(results'[g]) >= Len(results[g])
        /\ \A j \in 1..Len(results[g]) : results'[g][j] = results[g][j]

C19_PrivateCopy == [](C19_StartSliceKept) /\ [][C19_PhrasesKept]_vars

\* C19's case: a generator created from a slice has been called twice and its
\* stored tuple differs from the caller's slice.
C19_Witness ==
    \E g \in Gens :
        /\ argArray[g] # NoArray
        /\ Len(results[g]) >= 2
        /\ current[g] # heap[argArray[g]]

----------------------------------------------------------------------------
\* The positions that bound the lines of file f: before it, each line feed, and
\* after it.
Boundaries(f) == {0, Len(f) + 1} \cup {i \in 1..Len(f) : f[i] = LF}

NthBoundary(f, k) ==
    CHOOSE b \in Boundaries(f) :
        Cardinality({c \in Boundaries(f) : c < b}) = k - 1

\* The lines of f, in file order (the text between consecutive boundaries).
LinesOf(f) ==
    [k \in 1..(Cardinality(Boundaries(f)) - 1) |->
        SubSeq(f, NthBoundary(f, k) + 1, NthBoundary(f, k + 1) - 1)]

\* A line without its leading and trailing white space.
Trimmed(l) ==
    LET inked == {i \in 1..Len(l) : ~IsSpace(l[i])}
    IN  IF inked = {} THEN <<>> ELSE SubSeq(l, Min(inked), Max(inked))

NonEmpty(w) == w # <<>>

\* The trimmed lines of f that are not empty, in file order.
TrimmedNonEmptyLines(f) ==
    SelectSeq([k \in 1..Len(LinesOf(f)) |-> Trimmed(LinesOf(f)[k])], NonEmpty)

\* C13: when readBIP39FromFile returns with a nil error, it returns exactly the
\* lines of the file that are non-empty after trimming, trimmed, in file order.
C13_ReadsTrimmedLines ==
    (readPc = "done" /\ readResult.err = "nil") =>
        readResult.words = TrimmedNonEmptyLines(file)

\* C13's case: a file with a blank line before its last line and with two
\* words, one of them padded, has been read.
C13_Witness ==
    /\ readPc = "done"
    /\ Len(readResult.words) = 2
    /\ \E k \in 1..(Len(LinesOf(file)) - 1) : Trimmed(LinesOf(file)[k]) = <<>>
    /\ \E k \in 1..Len(LinesOf(file)) :
          LinesOf(file)[k] # <<>> /\ Trimmed(LinesOf(file)[k]) # LinesOf(file)[k]

====
